---- MODULE Spec2Model ----
(***************************************************************************)
(* MediaMetadataUpdater (v2): the classification-and-routing pipeline.     *)
(*                                                                         *)
(* A file name is a sequence of one-character strings.  The regular        *)
(* expressions of the script are modelled by operators that compute what   *)
(* re.match computes on such a sequence; datetime.strptime and datetime()  *)
(* by operators that validate the calendar fields.  The batch engine       *)
(* (main), the worker pool and the routing moves are actions over a small  *)
(* file system.                                                            *)
(***************************************************************************)
EXTENDS Integers, Sequences, FiniteSets, TLC

(***************************************************************************)
(* Characters and numbers                                                  *)
(***************************************************************************)
DigitSeq == <<"0", "1", "2", "3", "4", "5", "6", "7", "8", "9">>

IsDigit(c) == \E i \in 1..10 : DigitSeq[i] = c

\* \s of the fallback regexes (ASCII whitespace that can occur in a name)
IsSpace(c) == c \in {" ", "\t"}

DigitVal(c) == (CHOOSE i \in 1..10 : DigitSeq[i] = c) - 1

\* s[p .. p+n-1] exists and is made of digits: \d{n} at position p
AllDigits(s, p, n) ==
    /\ p + n - 1 <= Len(s)
    /\ \A k \in p..(p + n - 1) : IsDigit(s[k])

\* the literal character c at position p
CharAt(s, p, c) == p <= Len(s) /\ s[p] = c

\* int() of the n digits at position p
RECURSIVE Num(_, _, _)
Num(s, p, n) ==
    IF n = 0 THEN 0 ELSE 10 * Num(s, p, n - 1) + DigitVal(s[p + n - 1])

Max(S) == CHOOSE x \in S : \A y \in S : y <= x

Min(S) == CHOOSE x \in S : \A y \in S : x <= y

(***************************************************************************)
(* datetime: the constructor's validation, strptime, strftime              *)
(***************************************************************************)
\* None: no datetime (year 0 is never a valid year)
NoDt == [Y |-> 0, M |-> 0, D |-> 0, h |-> 0, mi |-> 0, s |-> 0]

IsLeap(y) == (y % 4 = 0 /\ y % 100 # 0) \/ y % 400 = 0

DaysIn(y, m) ==
    IF m = 2 THEN (IF IsLeap(y) THEN 29 ELSE 28)
    ELSE IF m \in {4, 6, 9, 11} THEN 30 ELSE 31

\* datetime(y, m, d, h, mi, s) raises ValueError exactly when this is FALSE
ValidDateTime(y, m, d, h, mi, s) ==
    /\ y \in 1..9999
    /\ m \in 1..12
    /\ d \in 1..DaysIn(y, m)
    /\ h \in 0..23
    /\ mi \in 0..59
    /\ s \in 0..59

\* datetime(...), with NoDt standing for the ValueError
MkDt(y, m, d, h, mi, s) ==
    IF ValidDateTime(y, m, d, h, mi, s)
    THEN [Y |-> y, M |-> m, D |-> d, h |-> h, mi |-> mi, s |-> s]
    ELSE NoDt

\* The date formats that occur in the built-in catalog, and one more that an
\* external pattern.json may list (day and month swapped).
FMT_ISO_FRAC == "%Y-%m-%dT%H%M%S.%fZ"
FMT_ISO == "%Y-%m-%dT%H%M%SZ"
FMT_DOT == "%Y-%m-%d %H.%M.%S"
FMT_ISO_DM == "%Y-%d-%mT%H%M%SZ"

\* \d{4}-\d{2}-\d{2}T\d{6}(?:\.\d{3})?Z at position p: the length of the
\* match (18 without the fraction, 22 with it), 0 when there is none
IsoLen(s, p) ==
    IF /\ AllDigits(s, p, 4) /\ CharAt(s, p + 4, "-")
       /\ AllDigits(s, p + 5, 2) /\ CharAt(s, p + 7, "-")
       /\ AllDigits(s, p + 8, 2) /\ CharAt(s, p + 10, "T")
       /\ AllDigits(s, p + 11, 6)
    THEN IF /\ CharAt(s, p + 17, ".") /\ AllDigits(s, p + 18, 3)
            /\ CharAt(s, p + 21, "Z")
         THEN 22
         ELSE IF CharAt(s, p + 17, "Z") THEN 18 ELSE 0
    ELSE 0

\* \d{4}-\d{2}-\d{2} \d{2}\.\d{2}\.\d{2} at position 1
DottedShape(s) ==
    /\ AllDigits(s, 1, 4) /\ CharAt(s, 5, "-")
    /\ AllDigits(s, 6, 2) /\ CharAt(s, 8, "-")
    /\ AllDigits(s, 9, 2) /\ CharAt(s, 11, " ")
    /\ AllDigits(s, 12, 2) /\ CharAt(s, 14, ".")
    /\ AllDigits(s, 15, 2) /\ CharAt(s, 17, ".")
    /\ AllDigits(s, 18, 2)

\* datetime.strptime(text, fmt); NoDt stands for the ValueError.  The text must
\* be consumed whole.  Every field of the texts met here has its full width
\* (the regexes capture \d{2}, \d{4}, \d{6}), where strptime's field patterns
\* accept exactly the values the constructor accepts, except seconds 60 and 61,
\* which the constructor then refuses.
Strptime(text, fmt) ==
    IF fmt = FMT_ISO
    THEN IF Len(text) = 18 /\ IsoLen(text, 1) = 18
         THEN MkDt(Num(text, 1, 4), Num(text, 6, 2), Num(text, 9, 2),
                   Num(text, 12, 2), Num(text, 14, 2), Num(text, 16, 2))
         ELSE NoDt
    ELSE IF fmt = FMT_ISO_DM
    THEN IF Len(text) = 18 /\ IsoLen(text, 1) = 18
         THEN MkDt(Num(text, 1, 4), Num(text, 9, 2), Num(text, 6, 2),
                   Num(text, 12, 2), Num(text, 14, 2), Num(text, 16, 2))
         ELSE NoDt
    ELSE IF fmt = FMT_ISO_FRAC
    THEN IF Len(text) = 22 /\ IsoLen(text, 1) = 22
         THEN MkDt(Num(text, 1, 4), Num(text, 6, 2), Num(text, 9, 2),
                   Num(text, 12, 2), Num(text, 14, 2), Num(text, 16, 2))
         ELSE NoDt
    ELSE IF fmt = FMT_DOT
    THEN IF Len(text) = 19 /\ DottedShape(text)
         THEN MkDt(Num(text, 1, 4), Num(text, 6, 2), Num(text, 9, 2),
                   Num(text, 12, 2), Num(text, 15, 2), Num(text, 18, 2))
         ELSE NoDt
    ELSE NoDt

Pad2(n) == <<DigitSeq[(n \div 10) + 1], DigitSeq[(n % 10) + 1]>>

Pad4(n) == Pad2(n \div 100) \o Pad2(n % 100)

\* dt.strftime("%Y:%m:%d %H:%M:%S")
ExifTimestamp(dt) ==
    Pad4(dt.Y) \o <<":">> \o Pad2(dt.M) \o <<":">> \o Pad2(dt.D) \o <<" ">>
    \o Pad2(dt.h) \o <<":">> \o Pad2(dt.mi) \o <<":">> \o Pad2(dt.s)

(***************************************************************************)
(* The regular expressions: re.match(fname) as [matched, groups]           *)
(***************************************************************************)
RX_EQ == "^(.*)=_=(\\d{4}-\\d{2}-\\d{2}T\\d{6}(?:\\.\\d{3})?Z).*"
RX_US == "^(.*)__(\\d{4}-\\d{2}-\\d{2}T\\d{6}(?:\\.\\d{3})?Z).*"
RX_DOT == "^(\\d{4}-\\d{2}-\\d{2} \\d{2}\\.\\d{2}\\.\\d{2}).*"

NoMatch == [matched |-> FALSE, groups |-> <<>>]

\* ^(.*)<delim>(ISO).* : the greedy (.*) takes the longest prefix after which
\* the delimiter and an ISO timestamp follow
DelimStarts(s, delim) ==
    {q \in 1..Len(s) :
        /\ q + Len(delim) - 1 <= Len(s)
        /\ SubSeq(s, q, q + Len(delim) - 1) = delim
        /\ IsoLen(s, q + Len(delim)) > 0}

DelimMatch(s, delim) ==
    IF DelimStarts(s, delim) = {} THEN NoMatch
    ELSE LET q == Max(DelimStarts(s, delim))
             p == q + Len(delim)
         IN  [matched |-> TRUE,
              groups |-> <<SubSeq(s, 1, q - 1),
                           SubSeq(s, p, p + IsoLen(s, p) - 1)>>]

DottedMatch(s) ==
    IF DottedShape(s)
    THEN [matched |-> TRUE, groups |-> <<SubSeq(s, 1, 19)>>]
    ELSE NoMatch

RegexMatch(regex, s) ==
    IF regex = RX_EQ THEN DelimMatch(s, <<"=", "_", "=">>)
    ELSE IF regex = RX_US THEN DelimMatch(s, <<"_", "_">>)
    ELSE IF regex = RX_DOT THEN DottedMatch(s)
    ELSE NoMatch

\* pattern_fb_space: ^(\d{2})(\d{2})(\d{2})\s+.*
pattern_fb_space(s) ==
    IF AllDigits(s, 1, 6) /\ 7 <= Len(s) /\ IsSpace(s[7])
    THEN [matched |-> TRUE,
          groups |-> <<SubSeq(s, 1, 2), SubSeq(s, 3, 4), SubSeq(s, 5, 6)>>]
    ELSE NoMatch

\* pattern_fb_dash: ^(\d{2})(\d{2})(\d{2})-.*
pattern_fb_dash(s) ==
    IF AllDigits(s, 1, 6) /\ CharAt(s, 7, "-")
    THEN [matched |-> TRUE,
          groups |-> <<SubSeq(s, 1, 2), SubSeq(s, 3, 4), SubSeq(s, 5, 6)>>]
    ELSE NoMatch

\* the number of capturing groups of a compiled regex
GroupCount(regex) ==
    IF regex \in {RX_EQ, RX_US} THEN 2
    ELSE IF regex = RX_DOT THEN 1
    ELSE 0

\* m.group(g) exists (otherwise IndexError: no such group); group 0 is the
\* whole match, which ends with .* and so is the whole name
HasGroup(m, g) == g \in 0..Len(m.groups)

Group(m, s, g) == IF g = 0 THEN s ELSE m.groups[g]

(***************************************************************************)
(* The file names of the model                                             *)
(***************************************************************************)
Names == <<
  \* 1: "x.jpg": no rule of any kind matches
  <<"x",".","j","p","g">>,
  \* 2: "230115 v": fallback YYMMDD + whitespace, a valid date
  <<"2","3","0","1","1","5"," ","v">>,
  \* 3: "230199 v": fallback YYMMDD + whitespace, day 99
  <<"2","3","0","1","9","9"," ","v">>,
  \* 4: "230115-v": fallback YYMMDD + dash, a valid date
  <<"2","3","0","1","1","5","-","v">>,
  \* 5: "231301-v": fallback YYMMDD + dash, month 13
  <<"2","3","1","3","0","1","-","v">>,
  \* 6: "a__2023-05-01T143000Z"
  <<"a","_","_","2","0","2","3","-","0","5","-","0","1","T","1","4","3","0","0","0","Z">>,
  \* 7: "a=_=2023-05-01T143000.123Z"
  <<"a","=","_","=","2","0","2","3","-","0","5","-","0","1","T","1","4","3","0","0","0",".","1","2","3","Z">>,
  \* 8: "2023-05-01 10.20.30.jpg"
  <<"2","0","2","3","-","0","5","-","0","1"," ","1","0",".","2","0",".","3","0",".","j","p","g">>,
  \* 9: "a__2023-05-01T143000Z=_=2023-13-01T143000Z": the =_= rule matches a
  \*    month 13, the __ rule a valid timestamp
  <<"a","_","_","2","0","2","3","-","0","5","-","0","1","T","1","4","3","0","0","0","Z","=","_","=","2","0","2","3","-","1","3","-","0","1","T","1","4","3","0","0","0","Z">>,
  \* 10: "a__2023-13-01T143000Z": the __ rule matches a month 13
  <<"a","_","_","2","0","2","3","-","1","3","-","0","1","T","1","4","3","0","0","0","Z">>,
  \* 11: "230199 a__2023-05-01T143000Z": fallback shape with day 99, and a
  \*     valid timestamp for the __ rule
  <<"2","3","0","1","9","9"," ","a","_","_","2","0","2","3","-","0","5","-","0","1","T","1","4","3","0","0","0","Z">>,
  \* 12: "230115 a__2023-13-01T143000Z": the __ rule matches a month 13, the
  \*     fallback a valid date
  <<"2","3","0","1","1","5"," ","a","_","_","2","0","2","3","-","1","3","-","0","1","T","1","4","3","0","0","0","Z">>,
  \* 13: "2023-02-30 10.20.30": the dotted rule matches a 30th of February
  <<"2","0","2","3","-","0","2","-","3","0"," ","1","0",".","2","0",".","3","0">>,
  \* 14: "230115.jpg": six digits followed by neither whitespace nor a dash
  <<"2","3","0","1","1","5",".","j","p","g">>,
  \* 15: "230115 a__2023-05-01T143000Z": the fallback shape with a valid date,
  \*     and a valid timestamp for the __ rule
  <<"2","3","0","1","1","5"," ","a","_","_","2","0","2","3","-","0","5","-","0","1","T","1","4","3","0","0","0","Z">>
>>

NameIds == 1..Len(Names)

(***************************************************************************)
(* PatternCatalog: the built-in rules and pattern.json                     *)
(***************************************************************************)
builtin_patterns == <<
    [regex |-> RX_EQ, group |-> 2, formats |-> <<FMT_ISO_FRAC, FMT_ISO>>],
    [regex |-> RX_US, group |-> 2, formats |-> <<FMT_ISO_FRAC, FMT_ISO>>],
    [regex |-> RX_DOT, group |-> 1, formats |-> <<FMT_DOT>>]
>>

\* The contents pattern.json may have.  An item's "group" key is optional:
\* <<>> is a missing key, <<g>> the key with value g.
PF_ABSENT == [kind |-> "absent", patterns |-> <<>>]

PF_MALFORMED == [kind |-> "malformed", patterns |-> <<>>]

PF_EMPTY == [kind |-> "json", patterns |-> <<>>]

\* one rule, the day-month format listed before the month-day format
PF_DAYMONTH == [kind |-> "json", patterns |-> <<
    [regex |-> RX_US, group |-> <<2>>, formats |-> <<FMT_ISO_DM, FMT_ISO>>] >>]

\* the built-in rules in another order
PF_REORDERED == [kind |-> "json", patterns |-> <<
    [regex |-> RX_DOT, group |-> <<1>>, formats |-> <<FMT_DOT>>],
    [regex |-> RX_US, group |-> <<2>>, formats |-> <<FMT_ISO, FMT_ISO_FRAC>>],
    [regex |-> RX_EQ, group |-> <<2>>, formats |-> <<FMT_ISO_FRAC, FMT_ISO>>] >>]

\* a rule without "group" (the prefix group 1 is captured), then a rule
\* whose group does not exist in its regex
PF_GROUPS == [kind |-> "json", patterns |-> <<
    [regex |-> RX_EQ, group |-> <<>>, formats |-> <<FMT_ISO>>],
    [regex |-> RX_US, group |-> <<3>>, formats |-> <<FMT_ISO>>] >>]

\* a regex that does not compile (a parenthesis is left open)
RX_BAD == "^(.*)__(\\d{4}"

\* a usable rule, then a rule without "formats"
PF_NOFORMATS == [kind |-> "json", patterns |-> <<
    [regex |-> RX_US, group |-> <<2>>, formats |-> <<FMT_ISO_DM, FMT_ISO>>],
    [regex |-> RX_EQ, group |-> <<2>>] >>]

\* a rule without "regex", then a usable rule
PF_NOREGEX == [kind |-> "json", patterns |-> <<
    [group |-> <<2>>, formats |-> <<FMT_ISO>>],
    [regex |-> RX_US, group |-> <<2>>, formats |-> <<FMT_ISO_DM, FMT_ISO>>] >>]

\* a usable rule, then a rule whose regex does not compile
PF_BADREGEX == [kind |-> "json", patterns |-> <<
    [regex |-> RX_US, group |-> <<2>>, formats |-> <<FMT_ISO_DM, FMT_ISO>>],
    [regex |-> RX_BAD, group |-> <<2>>, formats |-> <<FMT_ISO>>] >>]

PatternFiles ==
    {PF_ABSENT, PF_MALFORMED, PF_EMPTY, PF_DAYMONTH, PF_REORDERED, PF_GROUPS,
     PF_NOFORMATS, PF_NOREGEX, PF_BADREGEX}

\* re.compile(regex) succeeds
Compiles(regex) == regex \in {RX_EQ, RX_US, RX_DOT}

\* the body of the loop over data["patterns"] raises nothing for the item:
\* item["regex"] exists and compiles, item["formats"] exists
ItemLoads(item) ==
    /\ "regex" \in DOMAIN item
    /\ Compiles(item.regex)
    /\ "formats" \in DOMAIN item

LoadedItem(item) ==
    [regex |-> item.regex,
     group |-> IF item.group = <<>> THEN 1 ELSE item.group[1],
     formats |-> item.formats]

\* Faulty variant: an item that cannot be loaded is left out and the others are returned
load_skipping_bad_items(pf) ==
    IF pf.kind # "json" THEN [loaded |-> FALSE, patterns |-> <<>>]
    ELSE [loaded |-> TRUE,
          patterns |-> LET good == SelectSeq(pf.patterns, ItemLoads)
                       IN  [k \in 1..Len(good) |-> LoadedItem(good[k])]]

\* load_external_patterns(): loaded = FALSE is the None it returns when
\* pattern.json is missing, is no JSON, or holds an item that raises
load_external_patterns(pf) ==
    IF pf.kind # "json" THEN [loaded |-> FALSE, patterns |-> <<>>]
    ELSE IF \E k \in 1..Len(pf.patterns) : ~ItemLoads(pf.patterns[k])
    THEN [loaded |-> FALSE, patterns |-> <<>>]
    ELSE [loaded |-> TRUE,
          patterns |-> [k \in 1..Len(pf.patterns) |-> LoadedItem(pf.patterns[k])]]

\* patterns = external if external else builtin_patterns
ActivePatterns(pf) ==
    LET external == load_external_patterns(pf)
    IN  IF external.loaded /\ external.patterns # <<>>
        THEN external.patterns ELSE builtin_patterns

(***************************************************************************)
(* TimestampExtractor: the classification part of process_file             *)
(***************************************************************************)
\* Faulty variant: the inner loop without its break: the last format that parses wins
RECURSIVE TryFormatsNoBreak(_, _, _)
TryFormatsNoBreak(text, formats, k) ==
    IF k > Len(formats) THEN [dt |-> NoDt, fmt |-> 0]
    ELSE IF TryFormatsNoBreak(text, formats, k + 1).dt # NoDt
         THEN TryFormatsNoBreak(text, formats, k + 1)
         ELSE IF Strptime(text, formats[k]) # NoDt
              THEN [dt |-> Strptime(text, formats[k]), fmt |-> k]
              ELSE [dt |-> NoDt, fmt |-> 0]

\* the inner loop over pat["formats"], from format k on
RECURSIVE TryFormats(_, _, _)
TryFormats(text, formats, k) ==
    IF k > Len(formats) THEN [dt |-> NoDt, fmt |-> 0]
    ELSE IF Strptime(text, formats[k]) # NoDt
         THEN [dt |-> Strptime(text, formats[k]), fmt |-> k]
         ELSE TryFormats(text, formats, k + 1)

\* Faulty variant: the loop over the rules ends after the first rule whose regex matched
BreakAfterRuleAlways(dt) == TRUE

\* "if dt: break": the loop over the rules ends after a rule whose captured
\* text parsed, and goes on otherwise
BreakAfterRule(dt) == dt # NoDt

Res(kind, via, dt, ts, rule, fmt) ==
    [kind |-> kind, via |-> via, dt |-> dt, ts |-> ts, rule |-> rule, fmt |-> fmt]

\* the loop over the rules, from rule i on; ts is timestamp_str so far
RECURSIVE TryPatterns(_, _, _, _)
TryPatterns(fname, patterns, i, ts) ==
    IF i > Len(patterns) THEN Res("none", "none", NoDt, ts, 0, 0)
    ELSE LET pat == patterns[i]
             m == RegexMatch(pat.regex, fname)
         IN  IF ~m.matched THEN TryPatterns(fname, patterns, i + 1, ts)
             ELSE IF ~HasGroup(m, pat.group)
             THEN Res("raise", "catalog", NoDt, ts, i, 0)
             ELSE LET text == Group(m, fname, pat.group)
                      r == TryFormats(text, pat.formats, 1)
                  IN  IF BreakAfterRule(r.dt)
                      THEN Res(IF r.dt # NoDt THEN "resolved" ELSE "none",
                               "catalog", r.dt, text, i, r.fmt)
                      ELSE TryPatterns(fname, patterns, i + 1, text)

\* Faulty variant: the two-digit year is read as 1900 + YY
FallbackDate1900(g) == MkDt(1900 + Num(g[1], 1, 2), Num(g[2], 1, 2), Num(g[3], 1, 2), 0, 0, 0)

\* datetime(int("20" + yy), int(mm), int(dd)) of a fallback match
FallbackDate(g) == MkDt(2000 + Num(g[1], 1, 2), Num(g[2], 1, 2), Num(g[3], 1, 2), 0, 0, 0)

\* f"20{yy}-{mm}-{dd}"
FallbackStamp(g) == <<"2", "0">> \o g[1] \o <<"-">> \o g[2] \o <<"-">> \o g[3]

\* Faulty variant: a fallback's ValueError is passed over and the next rule is tried
FallbacksPass(fname) ==
    IF pattern_fb_space(fname).matched
       /\ FallbackDate(pattern_fb_space(fname).groups) # NoDt
    THEN LET g == pattern_fb_space(fname).groups
         IN  Res("resolved", "fb1", FallbackDate(g), FallbackStamp(g), 0, 0)
    ELSE IF pattern_fb_dash(fname).matched
            /\ FallbackDate(pattern_fb_dash(fname).groups) # NoDt
    THEN LET g == pattern_fb_dash(fname).groups
         IN  Res("resolved", "fb2", FallbackDate(g), FallbackStamp(g), 0, 0)
    ELSE Res("nopattern", "none", NoDt, <<>>, 0, 0)

\* The fallback rules, consulted when the catalog left dt unset
Fallbacks(fname) ==
    IF pattern_fb_space(fname).matched
    THEN LET g == pattern_fb_space(fname).groups
         IN  IF FallbackDate(g) # NoDt
             THEN Res("resolved", "fb1", FallbackDate(g), FallbackStamp(g), 0, 0)
             ELSE Res("fb1err", "fb1", NoDt, <<>>, 0, 0)
    ELSE IF pattern_fb_dash(fname).matched
    THEN LET g == pattern_fb_dash(fname).groups
         IN  IF FallbackDate(g) # NoDt
             THEN Res("resolved", "fb2", FallbackDate(g), FallbackStamp(g), 0, 0)
             ELSE Res("fb2err", "fb2", NoDt, <<>>, 0, 0)
    ELSE Res("nopattern", "none", NoDt, <<>>, 0, 0)

\* Extraction as process_file does it.  kind: "resolved" (dt is set, the
\* external tool comes next), "fb1err"/"fb2err" (a fallback matched an
\* impossible date), "nopattern", or "raise" (m.group raised IndexError)
Extract(fname, pf) ==
    LET c == TryPatterns(fname, ActivePatterns(pf), 1, <<>>)
    IN  IF c.kind = "raise" THEN c
        ELSE IF c.dt # NoDt THEN c
        ELSE Fallbacks(fname)

(***************************************************************************)
(* The pattern browser's classify_filename                                 *)
(***************************************************************************)
\* "for pat in patterns": the first rule whose regex matches decides; its
\* group is taken (IndexError when there is none) and not parsed
RECURSIVE ClassifyMain(_, _, _)
ClassifyMain(fname, patterns, i) ==
    IF i > Len(patterns) THEN [kind |-> "next", timestamp |-> <<>>]
    ELSE LET m == RegexMatch(patterns[i].regex, fname)
         IN  IF ~m.matched THEN ClassifyMain(fname, patterns, i + 1)
             ELSE IF ~HasGroup(m, patterns[i].group)
             THEN [kind |-> "raise", timestamp |-> <<>>]
             ELSE [kind |-> "main",
                   timestamp |-> Group(m, fname, patterns[i].group)]

\* kind is "main", "fallback" or "none" ("raise": m.group raised IndexError)
classify_filename(fname, patterns) ==
    LET c == ClassifyMain(fname, patterns, 1)
        m1 == pattern_fb_space(fname)
        m2 == pattern_fb_dash(fname)
    IN  IF c.kind # "next" THEN c
        ELSE IF m1.matched /\ FallbackDate(m1.groups) # NoDt
        THEN [kind |-> "fallback", timestamp |-> FallbackStamp(m1.groups)]
        ELSE IF m2.matched /\ FallbackDate(m2.groups) # NoDt
        THEN [kind |-> "fallback", timestamp |-> FallbackStamp(m2.groups)]
        ELSE [kind |-> "none", timestamp |-> <<>>]

(***************************************************************************)
(* The state: the run's inputs, the file system, main, the worker tasks    *)
(***************************************************************************)
VARIABLES
    folder_list,    \* the directories to scan, in order
    patternFile,    \* the contents of pattern.json
    workers,        \* the size of the worker pool
    disk,           \* the file system: path |-> entry, for the paths that exist
    mainpc,         \* "scan", "pool", "done" (Summary printed), "aborted"
    scanIdx,        \* the index in folder_list of the folder being scanned
    all_files,      \* the paths collected by the scan, one FileTask each
    summary,        \* the Summary counters
    completed,      \* main's count of the outcomes received
    match_log, notmatch_log, changed_log,   \* the three log files, as lines
    pc,             \* per task: where its process_file call is
    loc,            \* per task: the locals of its process_file call
    out,            \* per task: the tuple process_file returned
    consumed,       \* the tasks whose future as_completed has yielded
    dirSkips,       \* history: the subdirectories met by the scan
    total_threads,  \* os.cpu_count() or 1
    args_workers,   \* the --workers argument, as characters
    run,            \* 1 in the first run of the script, 2 in a second run
    prev,           \* history: what the first run left, once a second began
    mcall,          \* the move_to_manual call in flight
    browser         \* the pattern browser: where its main is, and its results

vars == <<folder_list, patternFile, workers, disk, mainpc, scanIdx, all_files,
          summary, completed, match_log, notmatch_log, changed_log,
          pc, loc, out, consumed, dirSkips,
          total_threads, args_workers, run, prev, mcall, browser>>

\* The bounds of the model
MaxEntries == 2
MaxWorkers == 2
MaxTasks == 2
FileSize == 2

\* A path is <<directory, name id>>.  "A" and "B" are input directories that
\* exist, "N" is a listed directory that does not; "failed" and "riff" are
\* the holding directories under the working directory.
ExistingDirs == {"A", "B"}

FolderLists == {<<"A">>, <<"A", "B">>, <<"A", "A">>, <<"N", "A">>, <<"N">>}

\* The names used when several entries are on the disk: one that no rule
\* matches and one that a fallback resolves
BatchNames == {1, 2}

SubDir == [kind |-> "dir", origin |-> <<>>, size |-> 0, tag |-> <<>>]

\* A regular file: where its content came from, its size, and the timestamp
\* the external tool wrote into it (<<>> when none)
File(origin, size, tag) ==
    [kind |-> "file", origin |-> origin, size |-> size, tag |-> tag]

RECURSIVE SubsetsUpTo(_, _)
SubsetsUpTo(S, k) ==
    IF k = 0 THEN {{}}
    ELSE SubsetsUpTo(S, k - 1) \cup
         {T \cup {x} : T \in SubsetsUpTo(S, k - 1), x \in S}

\* The disks a run may start on: up to MaxEntries entries in the input
\* directories, each a regular file or a subdirectory
InitialDisks(names) ==
    UNION {
        {[p \in P |-> IF k[p] = "file" THEN File(p, FileSize, <<>>) ELSE SubDir] :
            k \in [P -> {"file", "dir"}]} :
        P \in SubsetsUpTo(ExistingDirs \X names, MaxEntries)}

isdir(p) == p \in DOMAIN disk /\ disk[p].kind = "dir"

isfile(p) == p \in DOMAIN disk /\ disk[p].kind = "file"

\* os.listdir(folder): the names in the folder, here in name-id order
RECURSIVE SortedSeq(_)
SortedSeq(S) ==
    IF S = {} THEN <<>>
    ELSE LET m == CHOOSE x \in S : \A y \in S : x <= y
         IN  <<m>> \o SortedSeq(S \ {m})

listdir(folder) == SortedSeq({n \in NameIds : <<folder, n>> \in DOMAIN disk})

\* the FileTasks the scan of lines 268-279 will collect from a disk
RECURSIVE ScanResult(_, _, _)
ScanResult(d, folders, k) ==
    IF k > Len(folders) THEN <<>>
    ELSE (IF folders[k] \in ExistingDirs
          THEN SortedSeq({n \in NameIds : /\ <<folders[k], n>> \in DOMAIN d
                                          /\ d[<<folders[k], n>>].kind # "dir"})
          ELSE <<>>) \o ScanResult(d, folders, k + 1)

\* --workers all: every execution unit is used
ARG_ALL == <<"a", "l", "l">>

\* no first run has been recorded
NoPrev == [files |-> <<>>, out |-> <<>>, disk |-> <<>>]

\* no move_to_manual call is in flight
NoCall == [pc |-> "idle", fpath |-> <<>>, target |-> <<>>, counter |-> 0,
           arrived |-> 0]

\* the pattern browser before it is started
NoBrowser == [pc |-> "idle", results |-> <<>>]

NoSummary ==
    [total |-> 0, match |-> 0, notmatch |-> 0, skipped |-> 0,
     increased |-> 0, decreased |-> 0]

Init ==
    /\ \/ /\ folder_list = <<"A">>
          /\ patternFile \in PatternFiles
          /\ workers = 1
          /\ \E n \in NameIds :
                disk = [p \in {<<"A", n>>} |-> File(p, FileSize, <<>>)]
       \/ /\ folder_list \in FolderLists
          /\ patternFile = PF_ABSENT
          /\ workers \in 1..MaxWorkers
          /\ disk \in InitialDisks(BatchNames)
          /\ Len(ScanResult(disk, folder_list, 1)) <= MaxTasks
    /\ mainpc = "scan"
    /\ scanIdx = 1
    /\ all_files = <<>>
    /\ summary = NoSummary
    /\ completed = 0
    /\ match_log = <<>>
    /\ notmatch_log = <<>>
    /\ changed_log = <<>>
    /\ pc = <<>>
    /\ loc = <<>>
    /\ out = <<>>
    /\ consumed = {}
    /\ dirSkips = 0
    /\ total_threads = workers
    /\ args_workers = ARG_ALL
    /\ run = 1
    /\ prev = NoPrev
    /\ mcall = NoCall
    /\ browser = NoBrowser

(***************************************************************************)
(* main: the scan of the input directories                                 *)
(***************************************************************************)
SeqMap(Op(_), q) == [k \in 1..Len(q) |-> Op(q[k])]

SelectIds(q, Test(_)) == SelectSeq(q, Test)

\* Faulty variant: the loop is left at the first folder that is no directory
NextFolderOrBreak(idx, usable) == IF usable THEN idx + 1 ELSE Len(folder_list) + 1

\* "for folder in folder_list": the loop goes on to the next folder, whether
\* os.path.isdir(folder) held or not
NextFolder(idx, usable) == idx + 1

\* One iteration of "for folder in folder_list": a folder that is no
\* directory is passed over; otherwise every entry is either logged as a
\* skipped directory and counted under skipped, or appended to all_files.
ScanFolder ==
    /\ mainpc = "scan"
    /\ scanIdx <= Len(folder_list)
    /\ LET folder == folder_list[scanIdx]
           IsSub(n) == isdir(<<folder, n>>)
           IsTask(n) == ~isdir(<<folder, n>>)
           PathOf(n) == <<folder, n>>
           SkipLine(n) == [fname |-> n, text |-> <<"skipped directory">>, moved |-> <<>>]
       IN  \/ /\ folder \notin ExistingDirs
              /\ UNCHANGED <<all_files, notmatch_log, summary, dirSkips>>
           \/ /\ folder \in ExistingDirs
              /\ all_files' = all_files \o SeqMap(PathOf, SelectIds(listdir(folder), IsTask))
              /\ notmatch_log' = notmatch_log \o
                                 SeqMap(SkipLine, SelectIds(listdir(folder), IsSub))
              /\ summary' = [summary EXCEPT !.skipped =
                                @ + Len(SelectIds(listdir(folder), IsSub))]
              /\ dirSkips' = dirSkips + Len(SelectIds(listdir(folder), IsSub))
    /\ scanIdx' = NextFolder(scanIdx, folder_list[scanIdx] \in ExistingDirs)
    /\ UNCHANGED <<folder_list, patternFile, workers, disk, mainpc, completed,
                   match_log, changed_log, pc, loc, out, consumed>>
    /\ UNCHANGED <<total_threads, args_workers, run, prev, mcall, browser>>

NoTs == [text |-> <<>>, moved |-> <<>>]

NoEx == Res("", "", NoDt, <<>>, 0, 0)

NoLoc ==
    [size_before |-> 0, size_after |-> 0, ex |-> NoEx, dst |-> "",
     msg |-> <<>>, toolRan |-> FALSE, rc |-> 0, err |-> <<>>, target |-> <<>>,
     patterns |-> <<>>]

NoOut == [fname |-> 0, timestamp |-> NoTs, status |-> "", sizes |-> <<>>]

\* Faulty variant: the skipped subdirectories are counted into total as well
TotalScannedWithDirs(files) == Len(files) + dirSkips

\* summary["total"] = len(all_files)
TotalScanned(files) == Len(files)

\* After the scan: total is set, the three logs are opened with mode "w"
\* (which empties them), the pool is created and every path is submitted.
OpenPool ==
    /\ mainpc = "scan"
    /\ scanIdx > Len(folder_list)
    /\ summary' = [summary EXCEPT !.total = TotalScanned(all_files)]
    /\ match_log' = <<>>
    /\ notmatch_log' = <<>>
    /\ changed_log' = <<>>
    /\ pc' = [i \in 1..Len(all_files) |-> "queued"]
    /\ loc' = [i \in 1..Len(all_files) |-> NoLoc]
    /\ out' = [i \in 1..Len(all_files) |-> NoOut]
    /\ mainpc' = "pool"
    /\ UNCHANGED <<folder_list, patternFile, workers, disk, scanIdx, all_files,
                   completed, consumed, dirSkips>>
    /\ UNCHANGED <<total_threads, args_workers, run, prev, mcall, browser>>

(***************************************************************************)
(* process_file, run by a pool worker, in the steps between which another  *)
(* worker can act on the file system                                       *)
(***************************************************************************)
Tasks == 1..Len(pc)

Running(i) == pc[i] \in {"getsize", "tool", "copy", "remove", "hung"}

Finished(i) == pc[i] \in {"returned", "raised"}

fname(i) == all_files[i][2]

Return(i, timestamp, status, sizes) ==
    /\ pc' = [pc EXCEPT ![i] = "returned"]
    /\ out' = [out EXCEPT ![i] = [fname |-> fname(i), timestamp |-> timestamp,
                                  status |-> status, sizes |-> sizes]]

Raise(i) ==
    /\ pc' = [pc EXCEPT ![i] = "raised"]
    /\ UNCHANGED out

mainVars == <<mainpc, scanIdx, all_files, summary, completed, match_log,
              notmatch_log, changed_log, consumed, dirSkips>>

inputVars == <<folder_list, patternFile, workers, total_threads, args_workers>>

\* what belongs to a second run and to move_to_manual
outerVars == <<run, prev, mcall, browser>>

\* A free worker takes the next queued task (in submission order) and
\* process_file begins: "if not os.path.isfile(fpath): return skip"
Start(i) ==
    /\ pc[i] = "queued"
    /\ \A j \in 1..(i - 1) : pc[j] # "queued"
    /\ Cardinality({j \in Tasks : Running(j)}) < workers
    /\ IF isfile(all_files[i])
       THEN /\ pc' = [pc EXCEPT ![i] = "getsize"]
            /\ UNCHANGED out
       ELSE Return(i, NoTs, "skip", <<>>)
    /\ UNCHANGED <<inputVars, mainVars, disk, loc, outerVars>>

\* Faulty variant: a classification failure is handed to the external tool as well
AfterExtractToTool(l, ex) == [l EXCEPT !.ex = [ex EXCEPT !.kind = "resolved"]]

\* Where the classification sends the task: to the external tool, or to the
\* move into `failed` with its diagnostic
AfterExtract(l, ex) ==
    IF ex.kind = "resolved" THEN [l EXCEPT !.ex = ex]
    ELSE [l EXCEPT !.ex = ex, !.dst = "failed", !.size_after = l.size_before,
            !.msg = IF ex.kind = "fb1err" THEN <<"Fallback1 YYMMDD parse error">>
                    ELSE IF ex.kind = "fb2err" THEN <<"Fallback2 YYMMDD parse error">>
                    ELSE <<"No pattern matched">>]

\* size_before = os.path.getsize(fpath), then pattern.json is loaded and the
\* name is classified
GetSize(i) ==
    /\ pc[i] = "getsize"
    /\ IF ~isfile(all_files[i])
       THEN /\ Return(i, NoTs, "error_size_before", <<>>)
            /\ UNCHANGED loc
       ELSE LET l == [loc[i] EXCEPT !.size_before = disk[all_files[i]].size,
                                   !.patterns = ActivePatterns(patternFile)]
                ex == Extract(Names[fname(i)], patternFile)
            IN  IF ex.kind = "raise"
                THEN Raise(i) /\ UNCHANGED loc
                ELSE /\ loc' = [loc EXCEPT ![i] = AfterExtract(l, ex)]
                     /\ pc' = [pc EXCEPT ![i] =
                                 IF AfterExtract(l, ex).ex.kind = "resolved"
                                 THEN "tool" ELSE "copy"]
                     /\ UNCHANGED out
    /\ UNCHANGED <<inputVars, mainVars, disk, outerVars>>

\* What the external tool can write to stderr when it fails
RIFF_MARK == "Not a valid JPG (looks more like a RIFF)"

ERR_RIFF == <<"Error:", RIFF_MARK, "- file">>

ERR_OTHER == <<"Error:", "File format error", "- file">>

ERR_MISSING == <<"Error:", "File not found", "- file">>

\* "Not a valid JPG (looks more like a RIFF)" in err
ContainsRiff(err) == \E k \in 1..Len(err) : err[k] = RIFF_MARK

\* Faulty variant: every tool failure is routed to `failed`
RouteOfAlwaysFailed(err) == "failed"

\* the holding directory chosen from the tool's diagnostic
RouteOf(err) == IF ContainsRiff(err) THEN "riff" ELSE "failed"

FailMsg(err) ==
    IF ContainsRiff(err) THEN <<"RIFF detected">> ELSE <<"Exiftool error:">> \o err

\* size_after: os.path.getsize(fpath), or size_before on OSError
SizeAfter(d, i) ==
    IF all_files[i] \in DOMAIN d THEN d[all_files[i]].size ELSE loc[i].size_before

\* Faulty variant: the timestamp is added to what the file holds ("+=" for "=")
WrittenTagShifted(old, dt) ==
    IF old = <<>> THEN ExifTimestamp(dt) ELSE old \o ExifTimestamp(dt)

\* "-DateTimeOriginal=<ts>", "-AllDates=<ts>", ...: the fields are assigned the
\* timestamp, whatever the file held
WrittenTag(old, dt) == ExifTimestamp(dt)

\* How the size may change when the tool rewrites the file: not at all when
\* the fields already hold the values written, by one either way otherwise
SizeDeltas(old, new) == IF old = new THEN {0} ELSE {-1, 0, 1}

\* subprocess.run([exiftool, ...]) and what follows it up to the routing
\* decision.  The tool cannot be started (the call raises), or it rewrites
\* the file in place and returns 0, or it returns non-zero with a diagnostic
\* and leaves the file as it is.
RunTool(i) ==
    /\ pc[i] = "tool"
    /\ \/ /\ Raise(i)
          /\ UNCHANGED <<disk, loc>>
       \/ /\ isfile(all_files[i])
          /\ \E delta \in SizeDeltas(disk[all_files[i]].tag,
                                     WrittenTag(disk[all_files[i]].tag, loc[i].ex.dt)) :
                disk' = [disk EXCEPT ![all_files[i]] =
                            File(@.origin, @.size + delta,
                                 WrittenTag(@.tag, loc[i].ex.dt))]
          /\ loc' = [loc EXCEPT ![i].toolRan = TRUE, ![i].rc = 0,
                                ![i].size_after = SizeAfter(disk', i)]
          /\ Return(i, [text |-> loc[i].ex.ts, moved |-> <<>>], "match",
                    <<loc[i].size_before, SizeAfter(disk', i)>>)
       \/ /\ \E err \in IF isfile(all_files[i]) THEN {ERR_RIFF, ERR_OTHER, <<>>}
                        ELSE {ERR_MISSING} :
                loc' = [loc EXCEPT ![i].toolRan = TRUE, ![i].rc = 1,
                                   ![i].err = err,
                                   ![i].size_after = SizeAfter(disk, i),
                                   ![i].dst = RouteOf(err),
                                   ![i].msg = FailMsg(err)]
          /\ pc' = [pc EXCEPT ![i] = "copy"]
          /\ UNCHANGED <<disk, out>>
    /\ UNCHANGED <<inputVars, mainVars, outerVars>>

\* safe_move, first half: os.makedirs(dst_dir, exist_ok=True), the target is
\* dst_dir/basename(src), shutil.copy2(src, target).  The copy raises when
\* the source is gone or the file system refuses it.
Copy(i) ==
    /\ pc[i] = "copy"
    /\ \/ /\ Raise(i)
          /\ UNCHANGED <<disk, loc>>
       \/ /\ isfile(all_files[i])
          /\ disk' = (<<loc[i].dst, fname(i)>> :> disk[all_files[i]]) @@ disk
          /\ loc' = [loc EXCEPT ![i].target = <<loc[i].dst, fname(i)>>]
          /\ pc' = [pc EXCEPT ![i] = "remove"]
          /\ UNCHANGED out
    /\ UNCHANGED <<inputVars, mainVars, outerVars>>

\* safe_move, second half: os.remove(src), return target; then process_file
\* returns notmatch with the diagnostic naming the target
Remove(i) ==
    /\ pc[i] = "remove"
    /\ \/ /\ Raise(i)
          /\ UNCHANGED disk
       \/ /\ isfile(all_files[i])
          /\ disk' = [p \in DOMAIN disk \ {all_files[i]} |-> disk[p]]
          /\ Return(i, [text |-> loc[i].msg, moved |-> loc[i].target], "notmatch",
                    <<loc[i].size_before, loc[i].size_after>>)
    /\ UNCHANGED <<inputVars, mainVars, loc, outerVars>>

(***************************************************************************)
(* main: the aggregation loop over as_completed(futures)                   *)
(***************************************************************************)
\* Faulty variant: the final else of the chain does not count the outcome
CountedAsNoElse(status) ==
    IF status \in {"match", "notmatch"} THEN status
    ELSE IF status = "skip" THEN "skipped"
    ELSE "none"

\* The counter an outcome's status is counted under (the if/elif chain)
CountedAs(status) ==
    IF status = "match" THEN "match"
    ELSE IF status = "notmatch" THEN "notmatch"
    ELSE IF status = "skip" THEN "skipped"
    ELSE "notmatch"

\* Faulty variant: an unchanged size is logged as "increased"
SizeChangeOrEqual(sizes) ==
    IF sizes = <<>> THEN "none"
    ELSE IF sizes[2] >= sizes[1] THEN "increased"
    ELSE "decreased"

\* "if sizes:" and the comparison of size_after with size_before
SizeChange(sizes) ==
    IF sizes = <<>> THEN "none"
    ELSE IF sizes[2] > sizes[1] THEN "increased"
    ELSE IF sizes[2] < sizes[1] THEN "decreased"
    ELSE "none"

\* summary[field] += 1 ("none": no counter)
Bump(s, field) == IF field \in DOMAIN s THEN [s EXCEPT ![field] = @ + 1] ELSE s

\* future.result() of a completed future returns the tuple: one outcome is
\* applied to the counters and the logs
Aggregate(i) ==
    /\ mainpc = "pool"
    /\ i \notin consumed
    /\ pc[i] = "returned"
    /\ consumed' = consumed \cup {i}
    /\ completed' = completed + 1
    /\ match_log' =
          IF out[i].status = "match"
          THEN Append(match_log, [fname |-> out[i].fname,
                                  text |-> out[i].timestamp.text,
                                  moved |-> out[i].timestamp.moved])
          ELSE match_log
    /\ notmatch_log' =
          IF out[i].status = "notmatch"
          THEN Append(notmatch_log, [fname |-> out[i].fname,
                                     text |-> out[i].timestamp.text,
                                     moved |-> out[i].timestamp.moved])
          ELSE IF out[i].status \in {"match", "skip"} THEN notmatch_log
          ELSE Append(notmatch_log, [fname |-> out[i].fname,
                                     text |-> <<"Unknown error">>, moved |-> <<>>])
    /\ changed_log' =
          IF SizeChange(out[i].sizes) = "none" THEN changed_log
          ELSE Append(changed_log, [fname |-> out[i].fname,
                                    text |-> <<SizeChange(out[i].sizes)>>,
                                    sizes |-> out[i].sizes])
    /\ summary' = Bump(Bump(summary, CountedAs(out[i].status)),
                       SizeChange(out[i].sizes))
    /\ UNCHANGED <<inputVars, disk, mainpc, scanIdx, all_files, pc, loc, out, dirSkips,
                   outerVars>>

\* future.result() of a future whose process_file call raised re-raises in
\* main: the loop is left, the with block closes the logs and waits for the
\* pool, and main ends with the exception, the Summary not printed
AggregateRaised(i) ==
    /\ mainpc = "pool"
    /\ i \notin consumed
    /\ pc[i] = "raised"
    /\ consumed' = consumed \cup {i}
    /\ mainpc' = "aborted"
    /\ UNCHANGED <<inputVars, disk, scanIdx, all_files, summary, completed,
                   match_log, notmatch_log, changed_log, pc, loc, out, dirSkips,
                   outerVars>>

\* as_completed is exhausted: the with block ends and the Summary is printed
Finish ==
    /\ mainpc = "pool"
    /\ consumed = Tasks
    /\ mainpc' = "done"
    /\ UNCHANGED <<inputVars, disk, scanIdx, all_files, summary, completed,
                   match_log, notmatch_log, changed_log, pc, loc, out, consumed,
                   dirSkips, outerVars>>

Next ==
    \/ ScanFolder
    \/ OpenPool
    \/ \E i \in Tasks : Start(i)
    \/ \E i \in Tasks : GetSize(i)
    \/ \E i \in Tasks : RunTool(i)
    \/ \E i \in Tasks : Copy(i)
    \/ \E i \in Tasks : Remove(i)
    \/ \E i \in Tasks : Aggregate(i)
    \/ \E i \in Tasks : AggregateRaised(i)
    \/ Finish

Spec == Init /\ [][Next]_vars

(***************************************************************************)
(* The script run a second time on a directory in which the first run      *)
(* matched and tagged every file                                           *)
(***************************************************************************)
Rerun ==
    /\ mainpc = "done"
    /\ run = 1
    /\ Tasks # {}
    /\ \A i \in Tasks : out[i].status = "match"
    /\ dirSkips = 0
    /\ run' = 2
    /\ prev' = [files |-> all_files, out |-> out, disk |-> disk]
    /\ mainpc' = "scan"
    /\ scanIdx' = 1
    /\ all_files' = <<>>
    /\ summary' = NoSummary
    /\ completed' = 0
    /\ pc' = <<>>
    /\ loc' = <<>>
    /\ out' = <<>>
    /\ consumed' = {}
    /\ UNCHANGED <<inputVars, disk, match_log, notmatch_log, changed_log, dirSkips,
                   mcall, browser>>

NextRerun ==
    \/ Next
    \/ Rerun

SpecRerun == Init /\ [][NextRerun]_vars

(***************************************************************************)
(* The run during which pattern.json is created, edited, corrupted or      *)
(* deleted                                                                 *)
(***************************************************************************)
\* The names on the disk of such a run: one that a fallback resolves and one
\* that the __ rule resolves
EditNames == {2, 6}

\* What pattern.json holds before and after an edit: nothing (absent or
\* deleted), text that is no JSON (corrupted), a catalog (created or edited)
EditedFiles == {PF_ABSENT, PF_MALFORMED, PF_DAYMONTH}

InitEdit ==
    /\ folder_list = <<"A", "B">>
    /\ patternFile \in EditedFiles
    /\ workers \in 1..MaxWorkers
    /\ \E n, m \in EditNames :
          disk = [p \in {<<"A", n>>, <<"B", m>>} |-> File(p, FileSize, <<>>)]
    /\ mainpc = "scan"
    /\ scanIdx = 1
    /\ all_files = <<>>
    /\ summary = NoSummary
    /\ completed = 0
    /\ match_log = <<>>
    /\ notmatch_log = <<>>
    /\ changed_log = <<>>
    /\ pc = <<>>
    /\ loc = <<>>
    /\ out = <<>>
    /\ consumed = {}
    /\ dirSkips = 0
    /\ total_threads = workers
    /\ args_workers = ARG_ALL
    /\ run = 1
    /\ prev = NoPrev
    /\ mcall = NoCall
    /\ browser = NoBrowser

\* Somebody rewrites, creates or deletes pattern.json while main is running
EditPattern ==
    /\ mainpc \in {"scan", "pool"}
    /\ patternFile' \in EditedFiles \ {patternFile}
    /\ UNCHANGED <<folder_list, workers, total_threads, args_workers, mainVars,
                   disk, pc, loc, out, outerVars>>

NextEdit ==
    \/ Next
    \/ EditPattern

SpecEdit == InitEdit /\ [][NextEdit]_vars

(***************************************************************************)
(* The run during which files of the input directories are deleted by      *)
(* somebody else                                                           *)
(***************************************************************************)
InitVanish ==
    /\ Init
    /\ folder_list \in {<<"A">>, <<"A", "B">>}
    /\ patternFile = PF_ABSENT

\* A file the scan has collected is deleted from outside while the pool runs
Vanish ==
    /\ mainpc = "pool"
    /\ \E i \in Tasks :
          /\ Running(i) \/ pc[i] = "queued"
          /\ isfile(all_files[i])
          /\ disk' = [p \in DOMAIN disk \ {all_files[i]} |-> disk[p]]
    /\ UNCHANGED <<inputVars, mainVars, pc, loc, out, outerVars>>

NextVanish ==
    \/ Next
    \/ Vanish

SpecVanish == InitVanish /\ [][NextVanish]_vars

(***************************************************************************)
(* The pattern browser run on the input directories before the updater     *)
(***************************************************************************)
\* The browser's main: the catalog is loaded as the updater loads it, every
\* entry of every listed directory that is no directory is classified, and
\* the results are shown; an exception in classify_filename ends the browser
BrowserMain ==
    /\ browser.pc = "idle"
    /\ mainpc = "scan"
    /\ scanIdx = 1
    /\ LET files == ScanResult(disk, folder_list, 1)
           results == [k \in 1..Len(files) |->
                          [filename |-> files[k],
                           kind |-> classify_filename(Names[files[k]],
                                        ActivePatterns(patternFile)).kind]]
       IN  browser' = IF \E k \in 1..Len(files) : results[k].kind = "raise"
                      THEN [pc |-> "crashed", results |-> <<>>]
                      ELSE [pc |-> "shown", results |-> results]
    /\ UNCHANGED <<inputVars, mainVars, disk, pc, loc, out, run, prev, mcall>>

NextBrowser ==
    \/ Next
    \/ BrowserMain

SpecBrowser == Init /\ [][NextBrowser]_vars

(***************************************************************************)
(* The run in which the external tool hangs on one file: subprocess.run    *)
(* has no timeout, so the call never returns and its worker stays taken.   *)
(***************************************************************************)
Hang(i) ==
    /\ pc[i] = "tool"
    /\ \A j \in Tasks : pc[j] # "hung"
    /\ pc' = [pc EXCEPT ![i] = "hung"]
    /\ UNCHANGED <<inputVars, mainVars, disk, loc, out, outerVars>>

NextHang ==
    \/ Next
    \/ \E i \in Tasks : Hang(i)

\* a worker that has taken a task goes on with it; a free worker takes the
\* next queued task
WorkerStep(i) ==
    i \in Tasks /\ (Start(i) \/ GetSize(i) \/ RunTool(i) \/ Copy(i) \/ Remove(i))

\* main goes on: the scan, the pool, and as_completed yields every future
\* that is done
MainStep ==
    \/ ScanFolder
    \/ OpenPool
    \/ \E i \in Tasks : Aggregate(i) \/ AggregateRaised(i)
    \/ Finish

\* the runs considered: two directories listed, a pool of MaxWorkers workers
InitHang ==
    /\ Init
    /\ folder_list \in {<<"A", "B">>, <<"N", "A">>}
    /\ workers = MaxWorkers

SpecHang ==
    /\ InitHang
    /\ [][NextHang]_vars
    /\ \A i \in 1..MaxTasks : WF_vars(WorkerStep(i))
    /\ WF_vars(MainStep)

(***************************************************************************)
(* move_to_manual, called on its own: the file system holds the folder "A" *)
(* and its `manual` subdirectory; a path is <<directory, name>> with the   *)
(* name as characters                                                      *)
(***************************************************************************)
\* how many files arrive in the folder to be routed to manual review
MaxArrivals == 3

\* The names of the files that arrive: with an extension, with a name that is
\* itself a disambiguated name, without an extension, with a leading dot
ManualBases ==
    {<<"f", ".", "j">>, <<"f", " ", "(", "1", ")", ".", "j">>, <<"g">>, <<".", "h">>}

\* The names `manual` may hold before the first call
ManualNames ==
    {<<"f", ".", "j">>, <<"f", " ", "(", "1", ")", ".", "j">>,
     <<"f", " ", "(", "2", ")", ".", "j">>, <<"g">>, <<"g", " ", "(", "1", ")">>}

\* manual_dir = os.path.join(os.path.dirname(fpath), "manual")
ManualDir(folder) == IF folder = "A" THEN "A/manual" ELSE "B/manual"

\* os.path.splitext(base): the extension starts at the last dot, unless the
\* dot leads the name (only dots before it)
splitext(base) ==
    LET k == Max({0} \cup {j \in 1..Len(base) : base[j] = "."})
    IN  IF k = 0 \/ \A j \in 1..(k - 1) : base[j] = "."
        THEN <<base, <<>>>>
        ELSE <<SubSeq(base, 1, k - 1), SubSeq(base, k, Len(base))>>

\* str(counter)
RECURSIVE Digits(_)
Digits(k) ==
    IF k < 10 THEN <<DigitSeq[k + 1]>>
    ELSE Digits(k \div 10) \o <<DigitSeq[(k % 10) + 1]>>

\* f"{name} ({counter}){ext}"
ProbeName(base, counter) ==
    splitext(base)[1] \o <<" ", "(">> \o Digits(counter) \o <<")">> \o splitext(base)[2]

\* Faulty variant: no destination is ever found to exist
existsNever(p) == FALSE

\* os.path.exists(p)
exists(p) == p \in DOMAIN disk

InitManual ==
    /\ folder_list = <<"A">>
    /\ patternFile = PF_ABSENT
    /\ workers = 1
    /\ total_threads = 1
    /\ args_workers = ARG_ALL
    /\ \E S \in SUBSET ManualNames :
          disk = [p \in {ManualDir("A")} \X S |-> File(p, FileSize, <<>>)]
    /\ mainpc = "manual"
    /\ scanIdx = 1
    /\ all_files = <<>>
    /\ summary = NoSummary
    /\ completed = 0
    /\ match_log = <<>>
    /\ notmatch_log = <<>>
    /\ changed_log = <<>>
    /\ pc = <<>>
    /\ loc = <<>>
    /\ out = <<>>
    /\ consumed = {}
    /\ dirSkips = 0
    /\ run = 1
    /\ prev = NoPrev
    /\ mcall = NoCall
    /\ browser = NoBrowser

notManualVars == <<inputVars, mainVars, pc, loc, out, run, prev, browser>>

\* a file named b arrives in the folder
Arrive(b) ==
    /\ mcall.arrived < MaxArrivals
    /\ <<"A", b>> \notin DOMAIN disk
    /\ disk' = (<<"A", b>> :> File(<<"arrival", mcall.arrived + 1>>, FileSize, <<>>))
               @@ disk
    /\ mcall' = [mcall EXCEPT !.arrived = @ + 1]
    /\ UNCHANGED notManualVars

\* move_to_manual(fpath) begins: manual_dir is made, target = manual_dir/base
ManualBegin(b) ==
    /\ mcall.pc = "idle"
    /\ isfile(<<"A", b>>)
    /\ mcall' = [mcall EXCEPT !.pc = "exists", !.fpath = <<"A", b>>,
                              !.target = <<ManualDir("A"), b>>, !.counter = 0]
    /\ UNCHANGED <<disk, notManualVars>>

\* "if os.path.exists(target):" counter = 1
ManualExists ==
    /\ mcall.pc = "exists"
    /\ mcall' = IF exists(mcall.target)
                THEN [mcall EXCEPT !.pc = "probe", !.counter = 1]
                ELSE [mcall EXCEPT !.pc = "copy"]
    /\ UNCHANGED <<disk, notManualVars>>

\* one iteration of "while True": the name with the counter is probed
ManualProbe ==
    /\ mcall.pc = "probe"
    /\ LET new_target == <<mcall.target[1], ProbeName(mcall.fpath[2], mcall.counter)>>
       IN  mcall' = IF ~exists(new_target)
                    THEN [mcall EXCEPT !.pc = "copy", !.target = new_target]
                    ELSE [mcall EXCEPT !.counter = @ + 1]
    /\ UNCHANGED <<disk, notManualVars>>

\* shutil.copy2(fpath, target)
ManualCopy ==
    /\ mcall.pc = "copy"
    /\ disk' = (mcall.target :> disk[mcall.fpath]) @@ disk
    /\ mcall' = [mcall EXCEPT !.pc = "remove"]
    /\ UNCHANGED notManualVars

\* os.remove(fpath); return target
ManualRemove ==
    /\ mcall.pc = "remove"
    /\ disk' = [p \in DOMAIN disk \ {mcall.fpath} |-> disk[p]]
    /\ mcall' = [mcall EXCEPT !.pc = "idle"]
    /\ UNCHANGED notManualVars

NextManual ==
    \/ \E b \in ManualBases : Arrive(b)
    \/ \E b \in ManualBases : ManualBegin(b)
    \/ ManualExists
    \/ ManualProbe
    \/ ManualCopy
    \/ ManualRemove

SpecManual == InitManual /\ [][NextManual]_vars

(***************************************************************************)
(* main: the size of the worker pool, from os.cpu_count() and --workers.   *)
(* pct / 100 and total_threads * (pct / 100) are double-precision          *)
(* operations: each result is the exact value rounded to 53 significant    *)
(* bits, ties to even.  A double is kept as its significant bits (most     *)
(* significant first) and the number of them that follow the binary point. *)
(***************************************************************************)
\* the largest number of execution units considered
MaxCpu == 50

\* The --workers arguments considered
WorkerArgs ==
    {ARG_ALL, <<"A", "L", "L">>, <<" ", "a", "l", "l">>, <<>>, <<"a", "b", "c">>,
     <<"8", "0", ".", "5">>, <<"8", "0">>, <<"5", "8">>, <<"2", "9">>, <<"1">>,
     <<"0">>, <<"-", "5">>, <<"+", "5", "0">>, <<" ", "5", "0", " ">>,
     <<"5", "_", "0">>, <<"1", "0", "0">>, <<"1", "0", "1">>, <<"2", "5", "0">>}

\* str.lower() on the letters that matter for "all"
Lower(s) ==
    [k \in 1..Len(s) |-> IF s[k] = "A" THEN "a" ELSE IF s[k] = "L" THEN "l" ELSE s[k]]

\* str.strip()
RECURSIVE Strip(_)
Strip(s) ==
    IF s # <<>> /\ IsSpace(s[1]) THEN Strip(Tail(s))
    ELSE IF s # <<>> /\ IsSpace(s[Len(s)]) THEN Strip(SubSeq(s, 1, Len(s) - 1))
    ELSE s

\* the digits of an int literal: digits, single underscores between them
IsIntBody(s) ==
    /\ s # <<>>
    /\ IsDigit(s[1]) /\ IsDigit(s[Len(s)])
    /\ \A k \in 1..Len(s) : IsDigit(s[k]) \/ s[k] = "_"
    /\ \A k \in 1..(Len(s) - 1) : ~(s[k] = "_" /\ s[k + 1] = "_")

RECURSIVE IntOfBody(_)
IntOfBody(s) ==
    IF s = <<>> THEN 0
    ELSE IF s[Len(s)] = "_" THEN IntOfBody(SubSeq(s, 1, Len(s) - 1))
    ELSE 10 * IntOfBody(SubSeq(s, 1, Len(s) - 1)) + DigitVal(s[Len(s)])

\* int(s): ok = FALSE is the ValueError
ParseInt(s) ==
    LET t == Strip(s)
        signed == t # <<>> /\ t[1] \in {"+", "-"}
        body == IF signed THEN Tail(t) ELSE t
    IN  IF IsIntBody(body)
        THEN [ok |-> TRUE,
              val |-> IF signed /\ t[1] = "-" THEN 0 - IntOfBody(body)
                      ELSE IntOfBody(body)]
        ELSE [ok |-> FALSE, val |-> 0]

\* 2^18: a double's 53 significant bits are handled in three parts of 18 bits
LIMB == 262144

\* the binary digits of n, and n in w binary digits
RECURSIVE ToBits(_)
ToBits(n) == IF n = 0 THEN <<>> ELSE ToBits(n \div 2) \o <<n % 2>>

RECURSIVE ToBitsN(_, _)
ToBitsN(n, w) == IF w = 0 THEN <<>> ELSE ToBitsN(n \div 2, w - 1) \o <<n % 2>>

RECURSIVE FromBits(_)
FromBits(b) ==
    IF b = <<>> THEN 0 ELSE 2 * FromBits(SubSeq(b, 1, Len(b) - 1)) + b[Len(b)]

StripZeros(b) ==
    IF \A k \in 1..Len(b) : b[k] = 0 THEN <<>>
    ELSE SubSeq(b, Min({k \in 1..Len(b) : b[k] = 1}), Len(b))

\* b (at most 54 bits) as three parts of 18 bits, most significant first
Limbs(b) ==
    LET padded == [k \in 1..(54 - Len(b)) |-> 0] \o b
    IN  <<FromBits(SubSeq(padded, 1, 18)), FromBits(SubSeq(padded, 19, 36)),
          FromBits(SubSeq(padded, 37, 54))>>

\* the bits of hi * 2^36 + mid * 2^18 + lo, for mid and lo below 2^18
OfLimbs(hi, mid, lo) == StripZeros(ToBits(hi) \o ToBitsN(mid, 18) \o ToBitsN(lo, 18))

\* b * t + c, for small t and c
MulBits(b, t, c) ==
    LET l == Limbs(b)
        lo == l[3] * t + c
        mid == l[2] * t + (lo \div LIMB)
        hi == l[1] * t + (mid \div LIMB)
    IN  OfLimbs(hi, mid % LIMB, lo % LIMB)

\* b + 1
IncBits(b) == MulBits(b, 1, 1)

\* The first 72 binary digits of r/100 after the point (r < 100), and whether
\* anything is left after them: long division, 18 digits at a time
BinDigits(r) ==
    LET d1 == (r * LIMB) \div 100
        r1 == (r * LIMB) % 100
        d2 == (r1 * LIMB) \div 100
        r2 == (r1 * LIMB) % 100
        d3 == (r2 * LIMB) \div 100
        r3 == (r2 * LIMB) % 100
        d4 == (r3 * LIMB) \div 100
        r4 == (r3 * LIMB) % 100
    IN  [bits |-> ToBitsN(d1, 18) \o ToBitsN(d2, 18) \o ToBitsN(d3, 18)
                  \o ToBitsN(d4, 18),
         inexact |-> r4 # 0]

\* Rounding to a double: 53 significant bits, to nearest, ties to even.
\* b has no leading zero; sticky: the exact value has more below b.
RoundDouble(b, frac, sticky) ==
    IF Len(b) <= 53 THEN [bits |-> b, frac |-> frac]
    ELSE LET keep == SubSeq(b, 1, 53)
             drop == SubSeq(b, 54, Len(b))
             more == sticky \/ \E k \in 2..Len(drop) : drop[k] = 1
             up == drop[1] = 1 /\ (more \/ keep[53] = 1)
         IN  [bits |-> IF up THEN IncBits(keep) ELSE keep,
              frac |-> frac - Len(drop)]

\* pct / 100, for pct in 1..100
PctFraction(pct) ==
    IF pct = 100 THEN [bits |-> <<1>>, frac |-> 0]
    ELSE RoundDouble(StripZeros(BinDigits(pct).bits), 72, BinDigits(pct).inexact)

\* the integer part of a double
FloorOf(x) ==
    IF Len(x.bits) > x.frac
    THEN FromBits(SubSeq(x.bits, 1, Len(x.bits) - x.frac)) ELSE 0

\* total_threads * x
Product(total, x) == RoundDouble(MulBits(x.bits, total, 0), x.frac, FALSE)

\* Faulty variant: the product is not capped from below
FloorOfProductNoMin(total, x) == FloorOf(Product(total, x))

\* max(1, math.floor(total_threads * x))
FloorOfProduct(total, x) ==
    IF FloorOf(Product(total, x)) > 1 THEN FloorOf(Product(total, x)) ELSE 1

\* pct = max(1, min(pct, 100))
ClampPct(pct) == IF pct < 1 THEN 1 ELSE IF pct > 100 THEN 100 ELSE pct

\* the worker count of lines 243-251
WorkerCount(total, arg) ==
    IF Lower(arg) = ARG_ALL THEN total
    ELSE IF ParseInt(arg).ok
         THEN FloorOfProduct(total, PctFraction(ClampPct(ParseInt(arg).val)))
         ELSE FloorOfProduct(total, PctFraction(80))

InitWorkers ==
    /\ total_threads \in 1..MaxCpu
    /\ args_workers \in WorkerArgs
    /\ workers = 0
    /\ mainpc = "args"
    /\ folder_list = <<"A">>
    /\ patternFile = PF_ABSENT
    /\ disk = <<>>
    /\ scanIdx = 1
    /\ all_files = <<>>
    /\ summary = NoSummary
    /\ completed = 0
    /\ match_log = <<>>
    /\ notmatch_log = <<>>
    /\ changed_log = <<>>
    /\ pc = <<>>
    /\ loc = <<>>
    /\ out = <<>>
    /\ consumed = {}
    /\ dirSkips = 0
    /\ run = 1
    /\ prev = NoPrev
    /\ mcall = NoCall
    /\ browser = NoBrowser

\* main, lines 240-253: the pool size is computed
ComputeWorkers ==
    /\ mainpc = "args"
    /\ workers' = WorkerCount(total_threads, args_workers)
    /\ mainpc' = "sized"
    /\ UNCHANGED <<folder_list, patternFile, total_threads, args_workers, disk,
                   scanIdx, all_files, summary, completed, match_log, notmatch_log,
                   changed_log, pc, loc, out, consumed, dirSkips, outerVars>>

SpecWorkers == InitWorkers /\ [][ComputeWorkers]_vars

(***************************************************************************)
(* Properties                                                              *)
(***************************************************************************)
\* The catalog in force, and what its rules do on a name, stated rule by rule
Pats == ActivePatterns(patternFile)

RuleMatches(n, r) == RegexMatch(Pats[r].regex, n).matched

Captured(n, r) == Group(RegexMatch(Pats[r].regex, n), n, Pats[r].group)

FmtParses(n, r, f) ==
    /\ RuleMatches(n, r)
    /\ HasGroup(RegexMatch(Pats[r].regex, n), Pats[r].group)
    /\ Strptime(Captured(n, r), Pats[r].formats[f]) # NoDt

RuleParses(n, r) == \E f \in 1..Len(Pats[r].formats) : FmtParses(n, r, f)

MatchingRules(n) == {r \in 1..Len(Pats) : RuleMatches(n, r)}

ParsingRules(n) == {r \in 1..Len(Pats) : RuleParses(n, r)}

\* the six-digit shape of a fallback rule: YYMMDD, then whitespace or a dash
FallbackShape(n) ==
    /\ Len(n) >= 7
    /\ \A k \in 1..6 : IsDigit(n[k])
    /\ n[7] \in {" ", "\t", "-"}

\* the calendar date 20YY-MM-DD exists
PossibleDate(n) ==
    LET y == 2000 + 10 * DigitVal(n[1]) + DigitVal(n[2])
        m == 10 * DigitVal(n[3]) + DigitVal(n[4])
        d == 10 * DigitVal(n[5]) + DigitVal(n[6])
    IN  /\ m \in 1..12
        /\ d >= 1
        /\ d <= (IF m = 2 THEN (IF y % 4 = 0 THEN 29 ELSE 28)
                 ELSE IF m \in {4, 6, 9, 11} THEN 30 ELSE 31)

TName(i) == Names[fname(i)]

\* task i has classified its name
Extracted(i) == loc[i].ex.kind # ""

\* process_file returned for task i after it found the file and read its size
ReturnedOnFile(i) ==
    pc[i] = "returned" /\ out[i].status \notin {"skip", "error_size_before"}

FileSkips == summary.skipped - dirSkips

\* C1 (as stated): after a completed run, total == matched + notMatched + skipped
C1_AsStated ==
    mainpc = "done" =>
        summary.total = summary.match + summary.notmatch + summary.skipped

\* C1 (amended): after a completed run, total plus the number of
\* subdirectories met during enumeration equals matched + notMatched + skipped:
\* total counts the FileTasks only, skipped counts the subdirectories as well
C1_TotalPlusDirs ==
    mainpc = "done" =>
        summary.total + dirSkips =
            summary.match + summary.notmatch + summary.skipped

C1_Witness ==
    /\ mainpc = "done"
    /\ dirSkips >= 1
    /\ summary.match >= 1
    /\ summary.total >= 1

\* C2 (as stated): a timestamp resolved from the catalog comes from the
\* earliest rule whose regex matches the filename
C2_AsStated ==
    \A i \in Tasks :
        (Extracted(i) /\ loc[i].ex.via = "catalog") =>
            loc[i].ex.rule = Min(MatchingRules(TName(i)))

\* C2 (amended): the timestamp resolved by process_file is the one produced by
\* the earliest catalog rule whose regex matches the filename and one of whose
\* formats parses the captured group, parsed with the earliest format of that
\* rule that parses it; when no rule parses, nothing is resolved from the catalog
C2_FirstParsingRuleWins ==
    \A i \in Tasks :
        Extracted(i) =>
            IF ParsingRules(TName(i)) # {}
            THEN LET r == Min(ParsingRules(TName(i)))
                     f == Min({g \in 1..Len(Pats[r].formats) : FmtParses(TName(i), r, g)})
                 IN  /\ loc[i].ex.kind = "resolved"
                     /\ loc[i].ex.via = "catalog"
                     /\ loc[i].ex.rule = r
                     /\ loc[i].ex.fmt = f
                     /\ loc[i].ex.ts = Captured(TName(i), r)
                     /\ loc[i].ex.dt = Strptime(Captured(TName(i), r), Pats[r].formats[f])
            ELSE loc[i].ex.via # "catalog"

\* a timestamp that two formats of the winning rule parse, resolved by the first
C2_Witness ==
    \E i \in Tasks :
        /\ Extracted(i)
        /\ loc[i].ex.via = "catalog"
        /\ loc[i].ex.fmt = 1
        /\ Cardinality({g \in 1..Len(Pats[loc[i].ex.rule].formats) :
                            FmtParses(TName(i), loc[i].ex.rule, g)}) >= 2

\* C3 (as stated): when the earliest rule whose regex matches parses with none
\* of its formats, no later catalog rule resolves the timestamp
C3_AsStated ==
    \A i \in Tasks :
        (/\ Extracted(i)
         /\ MatchingRules(TName(i)) # {}
         /\ ~RuleParses(TName(i), Min(MatchingRules(TName(i))))) =>
            loc[i].ex.via # "catalog"

\* C3 (amended): when a catalog rule's regex matches the filename but none of
\* that rule's formats parses the captured text, the later catalog rules are
\* still tried in order; extraction goes on to the two fallback rules only when
\* no catalog rule parses, and is then NoMatch unless a fallback rule matches
C3_FallsThroughToLaterRules ==
    \A i \in Tasks :
        (/\ Extracted(i)
         /\ MatchingRules(TName(i)) # {}
         /\ ~RuleParses(TName(i), Min(MatchingRules(TName(i))))) =>
            LET later == {r \in ParsingRules(TName(i)) : r > Min(MatchingRules(TName(i)))}
            IN  IF later # {}
                THEN loc[i].ex.via = "catalog" /\ loc[i].ex.rule = Min(later)
                ELSE /\ loc[i].ex.via \in {"fb1", "fb2", "none"}
                     /\ loc[i].ex.kind = "nopattern" <=>
                            (/\ ~pattern_fb_space(TName(i)).matched
                             /\ ~pattern_fb_dash(TName(i)).matched)

C3_Witness ==
    \E i \in Tasks :
        /\ Extracted(i)
        /\ loc[i].ex.via = "catalog"
        /\ loc[i].ex.rule > Min(MatchingRules(TName(i)))

C5_Routed(i) ==
    /\ ~loc[i].toolRan
    /\ pc[i] # "tool"
    /\ ReturnedOnFile(i) =>
          /\ out[i].status = "notmatch"
          /\ out[i].timestamp.text \in {<<"Fallback1 YYMMDD parse error">>,
                                        <<"Fallback2 YYMMDD parse error">>}
          /\ out[i].timestamp.text # <<"No pattern matched">>
          /\ loc[i].ex.via = (IF IsSpace(TName(i)[7]) THEN "fb1" ELSE "fb2")
          /\ out[i].timestamp.moved = <<"failed", fname(i)>>
          /\ <<"failed", fname(i)>> \in DOMAIN disk
          /\ all_files[i] \notin DOMAIN disk

\* C5 (as stated): every filename of a fallback's six-digit shape whose date is
\* impossible is moved to `failed` without the tool, with its own diagnostic
C5_AsStated ==
    \A i \in Tasks :
        (FallbackShape(TName(i)) /\ ~PossibleDate(TName(i))) => C5_Routed(i)

\* C5 (amended): for every filename of a fallback's six-digit shape (YYMMDD
\* followed by whitespace or a dash) whose date is impossible and from which
\* no catalog rule resolved a timestamp, process_file tries no further rule,
\* does not invoke the external tool, moves the file to `failed` and returns
\* notmatch with a diagnostic other than the one for no shape matched
C5_ImpossibleDateRoutedToFailed ==
    \A i \in Tasks :
        (/\ FallbackShape(TName(i))
         /\ ~PossibleDate(TName(i))
         /\ ParsingRules(TName(i)) = {}) => C5_Routed(i)

C5_Witness ==
    \E i \in Tasks :
        /\ FallbackShape(TName(i))
        /\ ~PossibleDate(TName(i))
        /\ ParsingRules(TName(i)) = {}
        /\ ReturnedOnFile(i)

\* C6: when the external tool returned non-success for a file and process_file
\* returns, the file was routed by the diagnostic: to `riff` when stderr
\* contains the RIFF-mismatch text, to `failed` otherwise; the outcome is
\* notmatch, its message names the destination path, a file is at that path
\* and none is at the original path
C6_ToolFailureRouted ==
    \A i \in Tasks :
        (pc[i] = "returned" /\ loc[i].toolRan /\ loc[i].rc # 0) =>
            LET dest == IF \E k \in DOMAIN loc[i].err : loc[i].err[k] = RIFF_MARK
                        THEN "riff" ELSE "failed"
            IN  /\ out[i].status = "notmatch"
                /\ out[i].timestamp.moved = <<dest, fname(i)>>
                /\ <<dest, fname(i)>> \in DOMAIN disk
                /\ all_files[i] \notin DOMAIN disk

C6_Witness ==
    \E i \in Tasks :
        /\ pc[i] = "returned" /\ loc[i].toolRan /\ loc[i].rc # 0
        /\ out[i].timestamp.moved = <<"riff", fname(i)>>

\* main has ended and the pool has no work left
RunOver == mainpc \in {"done", "aborted"} /\ \A i \in Tasks : Finished(i)

\* C7 (as stated): every submitted FileTask produces exactly one FileOutcome,
\* which is aggregated exactly once; when the run is over no task is left
\* without an aggregated outcome
C7_AsStated ==
    RunOver => \A i \in Tasks : pc[i] = "returned" /\ i \in consumed

\* a task that process_file is acting on: it reads, rewrites, copies or deletes
\* the file at its path
Holds(i) == Running(i)

\* C8 (as stated): no two workers hold the same path at the same time
C8_AsStated ==
    \A i, j \in Tasks :
        (i # j /\ Holds(i) /\ Holds(j)) => all_files[i] # all_files[j]

\* C9: aggregation is serialized and lossless: after k outcomes have been
\* received, match + notmatch + file-level skips == k, every received outcome
\* has its line in the log of its status, and at completion k is the number of
\* submitted tasks
C9_AggregationLossless ==
    mainpc \in {"pool", "done", "aborted"} =>
        /\ summary.match + summary.notmatch + FileSkips = completed
        /\ completed = Cardinality({i \in consumed : pc[i] = "returned"})
        /\ Len(match_log) = summary.match
        /\ Len(notmatch_log) = summary.notmatch
        /\ Len(changed_log) = summary.increased + summary.decreased
        /\ mainpc = "done" => completed = Len(all_files)

\* two workers, two outcomes of different status, received in the order
\* opposite to the submission order
C9_Witness ==
    /\ mainpc = "done"
    /\ workers >= 2
    /\ Len(all_files) >= 2
    /\ summary.match >= 1
    /\ summary.notmatch >= 1
    /\ \E k \in 1..Len(notmatch_log) : notmatch_log[k].fname = fname(1)
    /\ match_log # <<>>

\* C10 (as stated): no per-file error aborts the batch: main never ends other
\* than normally, and once it has ended every task has an aggregated outcome
C10_AsStated ==
    /\ mainpc # "aborted"
    /\ mainpc = "done" => \A i \in Tasks : pc[i] = "returned" /\ i \in consumed

\* the files of the `manual` directory
InManual == {p \in DOMAIN disk : p[1] = ManualDir("A")}

\* the destination a call is about to copy to is the plain name when that is
\* free, and otherwise the name with the least counter 1, 2, ... that is free
TargetIsFirstFree ==
    mcall.pc = "copy" =>
        LET base == mcall.fpath[2]
            plain == <<ManualDir("A"), base>>
            Probe(k) == <<ManualDir("A"), ProbeName(base, k)>>
        IN  IF plain \notin DOMAIN disk THEN mcall.target = plain
            ELSE \E k \in 1..(MaxArrivals + Cardinality(ManualNames)) :
                    /\ mcall.target = Probe(k)
                    /\ Probe(k) \notin DOMAIN disk
                    /\ \A j \in 1..(k - 1) : Probe(j) \in DOMAIN disk

\* C11: move_to_manual never overwrites: in every step of every sequence of
\* calls each file present in `manual` stays there with its content, and the
\* destination of a call is the first of name, name (1), name (2), ... that
\* does not exist
C11_ManualNeverOverwrites ==
    [][/\ \A p \in InManual : p \in DOMAIN disk' /\ disk'[p] = disk[p]
       /\ TargetIsFirstFree']_vars

\* a call found name and name (1) taken and copied to name (2)
C11_Witness ==
    /\ mcall.pc = "remove"
    /\ mcall.counter = 2
    /\ mcall.target = <<ManualDir("A"), ProbeName(mcall.fpath[2], 2)>>
    /\ disk[mcall.target].origin[1] = "arrival"
    /\ disk[<<ManualDir("A"), mcall.fpath[2]>>].origin # disk[mcall.target].origin

\* the files of the holding directories of the working directory
InHolding == {p \in DOMAIN disk : p[1] \in {"failed", "riff"}}

\* C12 (as stated): no routing move overwrites another file: in every step a
\* file present in a holding directory stays there with its content
C12_AsStated ==
    [][\A p \in InHolding : p \in DOMAIN disk' /\ disk'[p] = disk[p]]_vars

\* the "skipped directory" lines of the not-match log
SkipLines ==
    {k \in 1..Len(notmatch_log) : notmatch_log[k].text = <<"skipped directory">>}

\* C13 (as stated): the logs are append-only within a run: when the run
\* completes, the not-match log holds the "skipped directory" line written for
\* each subdirectory found during enumeration
C13_AsStated ==
    mainpc = "done" => Cardinality(SkipLines) = dirSkips

\* the subdirectories directly inside the input directories
SubDirsOfInputs ==
    {p \in DOMAIN disk :
        /\ disk[p].kind = "dir"
        /\ \E k \in 1..Len(folder_list) : folder_list[k] = p[1]}

\* C14 (as stated): when the enumeration is over and no outcome has been
\* aggregated yet, skipped has been incremented by exactly 1 for every
\* subdirectory directly inside an input directory, and no FileTask is a
\* subdirectory
C14_AsStated ==
    (mainpc = "pool" /\ completed = 0) =>
        /\ summary.skipped = Cardinality(SubDirsOfInputs)
        /\ \A i \in 1..Len(all_files) : all_files[i] \notin SubDirsOfInputs

\* max(1, floor(total * clamp(pct, 1, 100) / 100)) in exact arithmetic
ExactShare(total, pct) ==
    LET c == IF pct < 1 THEN 1 ELSE IF pct > 100 THEN 100 ELSE pct
    IN  IF (total * c) \div 100 >= 1 THEN (total * c) \div 100 ELSE 1

\* C15 (as stated): the pool size lies in [1, total]; it is total for `all`,
\* max(1, floor(total * clamp(pct,1,100) / 100)) for an integer percentage, and
\* the 80% share for an argument that is no integer
C15_AsStated ==
    mainpc = "sized" =>
        /\ workers \in 1..total_threads
        /\ workers =
              IF args_workers \in {<<"a", "l", "l">>, <<"A", "L", "L">>}
              THEN total_threads
              ELSE IF ParseInt(args_workers).ok
              THEN ExactShare(total_threads, ParseInt(args_workers).val)
              ELSE ExactShare(total_threads, 80)

\* where task i is, "none" when there is no task i
PcOf(i) == IF i \in Tasks THEN pc[i] ELSE "none"

\* C16 (as stated): when the external tool hangs on one task and the pool has
\* at least two workers, every other submitted task eventually has a terminal
\* outcome that has been applied to Summary and the logs
C16_AsStated ==
    \A i \in 1..MaxTasks :
        [](( /\ workers >= 2
             /\ PcOf(i) \notin {"none", "hung"}
             /\ \E h \in Tasks : pc[h] = "hung" )
            => <>(PcOf(i) = "returned" /\ i \in consumed))

\* pattern.json is absent, is not JSON, or holds a rule without regex or
\* formats or with a regex that does not compile
ConfigUnusable ==
    \/ patternFile.kind \in {"absent", "malformed"}
    \/ \E k \in 1..Len(patternFile.patterns) :
          \/ "regex" \notin DOMAIN patternFile.patterns[k]
          \/ "formats" \notin DOMAIN patternFile.patterns[k]
          \/ patternFile.patterns[k].regex = RX_BAD

\* the classification of a name by the built-in three rules and the fallbacks
BuiltInResult(n) ==
    IF TryPatterns(n, builtin_patterns, 1, <<>>).dt # NoDt
    THEN TryPatterns(n, builtin_patterns, 1, <<>>)
    ELSE Fallbacks(n)

WritesSucceeded ==
    \A k \in Tasks : pc[k] # "raised" /\ ~(loc[k].toolRan /\ loc[k].rc # 0)

\* the outcome the first run gave the file of task i
FirstOutcome(i) ==
    prev.out[CHOOSE j \in 1..Len(prev.files) : prev.files[j] = all_files[i]]

\* C18: idempotence across runs: in a second run on a directory in which the
\* first run matched and tagged every file, as long as the external writes
\* succeed no file is moved and every file keeps the content it had after the
\* first run, and every outcome is Matched with the timestamp of the first run
C18_RerunIdempotent ==
    (run = 2 /\ WritesSucceeded) =>
        /\ disk = prev.disk
        /\ \A i \in Tasks :
              /\ \E j \in 1..Len(prev.files) : prev.files[j] = all_files[i]
              /\ pc[i] \notin {"copy", "remove"}
              /\ pc[i] = "returned" =>
                    /\ out[i].status = "match"
                    /\ out[i].timestamp = FirstOutcome(i).timestamp

\* a second run that has completed with every file matched again
C18_Witness ==
    /\ run = 2
    /\ mainpc = "done"
    /\ WritesSucceeded
    /\ summary.match >= 1
    /\ summary.match = summary.total

\* C19 (as stated): the per-file state machine is respected: the tool is
\* invoked for a file only after the extractor resolved a timestamp for it, an
\* outcome is Matched only if the tool was invoked and returned success, and a
\* file whose outcome is Matched is never copied, moved or deleted by the
\* router (safe_move has copied it once a task on its path has a target)
C19_AsStated ==
    \A i \in Tasks :
        /\ loc[i].toolRan => loc[i].ex.kind = "resolved"
        /\ (pc[i] = "returned" /\ out[i].status = "match") =>
              /\ loc[i].toolRan
              /\ loc[i].rc = 0
              /\ \A k \in Tasks :
                    all_files[k] = all_files[i] => loc[k].target = <<>>

\* the name starts with six digits
StartsYYMMDD(n) == Len(n) >= 6 /\ \A k \in 1..6 : IsDigit(n[k])

\* 20YY:MM:DD 00:00:00, read off the first six characters of the name
Midnight(n) ==
    <<"2", "0", n[1], n[2], ":", n[3], n[4], ":", n[5], n[6], " ",
      "0", "0", ":", "0", "0", ":", "0", "0">>

\* the timestamp task i hands to the external tool
Handed(i) == ExifTimestamp(loc[i].ex.dt)

\* the order in which the fallback rules were consulted for task i: they
\* resolve a name only when no catalog rule parsed a timestamp, and the dash
\* rule only when the whitespace rule did not match
FallbackOrder(i) ==
    /\ loc[i].ex.via \in {"fb1", "fb2"} => ParsingRules(TName(i)) = {}
    /\ loc[i].ex.via = "fb1" => IsSpace(TName(i)[7])
    /\ loc[i].ex.via = "fb2" => (~IsSpace(TName(i)[7]) /\ TName(i)[7] = "-")

ContentAt(i, p) == p \in DOMAIN disk /\ disk[p].origin = all_files[i]

\* C21 (as stated): a routing move never loses the file: between the copy and
\* the delete of safe_move the file's content exists at the source path or at
\* the destination path, and after a completed move it exists at the
\* destination only
C21_AsStated ==
    \A i \in Tasks :
        /\ pc[i] = "remove" =>
              ContentAt(i, all_files[i]) \/ ContentAt(i, loc[i].target)
        /\ (pc[i] = "returned" /\ out[i].timestamp.moved # <<>>) =>
              /\ ContentAt(i, out[i].timestamp.moved)
              /\ ~ContentAt(i, all_files[i])

\* C22 (as stated): the catalog is immutable for a run: every FileTask of one
\* run is classified against the same catalog, even if pattern.json changes
\* while the run is in progress
C22_AsStated ==
    \A i, j \in Tasks :
        (Extracted(i) /\ Extracted(j)) =>
            /\ loc[i].patterns = loc[j].patterns
            /\ TName(i) = TName(j) => loc[i].ex = loc[j].ex

\* the received outcomes of the given statuses
Received(statuses) ==
    {i \in consumed : pc[i] = "returned" /\ out[i].status \in statuses}

\* C23 (as stated): a file that vanished between enumeration and processing,
\* or whose size cannot be read at the start of processing, is counted under
\* skipped and not under notMatched, and a size that cannot be read after the
\* write is reported as unchanged
C23_AsStated ==
    /\ mainpc \in {"pool", "done", "aborted"} =>
          /\ FileSkips = Cardinality(Received({"skip", "error_size_before"}))
          /\ summary.notmatch = Cardinality(Received({"notmatch"}))
    /\ \A i \in Tasks :
          (loc[i].toolRan /\ loc[i].err = ERR_MISSING) =>
              loc[i].size_after = loc[i].size_before

\* the received outcomes whose size_after is above / below size_before
Grew == {i \in consumed : /\ pc[i] = "returned"
                          /\ out[i].sizes # <<>>
                          /\ out[i].sizes[2] > out[i].sizes[1]}

Shrank == {i \in consumed : /\ pc[i] = "returned"
                            /\ out[i].sizes # <<>>
                            /\ out[i].sizes[2] < out[i].sizes[1]}

\* the lines of the size-change log that say the given word
ChangedLines(word) ==
    {k \in 1..Len(changed_log) : changed_log[k].text = <<word>>}

\* C24: the size-change log and counters track exactly the outcomes whose size
\* changed: one `increased` entry and one increment of increased per received
\* outcome with size_after > size_before, one `decreased` entry and increment
\* per outcome with size_after < size_before, nothing otherwise; an outcome
\* of a classification failure never has a changed size, and
\* increased + decreased <= match + notmatch
C24_SizeChangesTracked ==
    /\ summary.increased = Cardinality(Grew)
    /\ summary.decreased = Cardinality(Shrank)
    /\ Cardinality(ChangedLines("increased")) = Cardinality(Grew)
    /\ Cardinality(ChangedLines("decreased")) = Cardinality(Shrank)
    /\ Len(changed_log) = Cardinality(Grew) + Cardinality(Shrank)
    /\ \A k \in 1..Len(changed_log) :
          \E i \in Grew \cup Shrank :
              /\ changed_log[k].fname = out[i].fname
              /\ changed_log[k].sizes = out[i].sizes
              /\ changed_log[k].text = <<"increased">> <=> i \in Grew
    /\ \A i \in Tasks :
          (pc[i] = "returned" /\ out[i].status = "notmatch" /\ ~loc[i].toolRan) =>
              /\ out[i].sizes # <<>>
              /\ out[i].sizes[1] = out[i].sizes[2]
              /\ i \notin Grew \cup Shrank
    /\ summary.increased + summary.decreased <= summary.match + summary.notmatch

\* a completed run with an outcome whose size grew, logged, and the outcome
\* of a classification failure
C24_Witness ==
    /\ mainpc = "done"
    /\ Grew # {}
    /\ changed_log # <<>>
    /\ \E i \in consumed :
          pc[i] = "returned" /\ out[i].status = "notmatch" /\ ~loc[i].toolRan

\* process_file raised for task i while it classified the name
RaisedClassifying(i) == pc[i] = "raised" /\ ~Extracted(i)

\* C25 (as stated): every rule of a catalog returned by load_external_patterns
\* has a capture index that refers to a group of its regex, so that taking
\* the designated group of a successful match never fails
C25_AsStated ==
    \A i \in Tasks :
        (load_external_patterns(patternFile).loaded
         /\ (Extracted(i) \/ RaisedClassifying(i))) =>
            /\ \A r \in 1..Len(Pats) : Pats[r].group \in 0..GroupCount(Pats[r].regex)
            /\ ~RaisedClassifying(i)

\* every external tool invocation and every file-system operation of the run
\* so far has returned: no task ended in an exception of subprocess.run,
\* shutil.copy2 or os.remove
OperationsReturned == \A i \in Tasks : pc[i] = "raised" => RaisedClassifying(i)

\* C26 (as stated): termination: if every external tool invocation and every
\* file-system operation returns, the run ends with the number of aggregated
\* outcomes equal to the number of submitted tasks and every task in a
\* terminal state
C26_AsStated ==
    (RunOver /\ OperationsReturned) =>
        /\ mainpc = "done"
        /\ completed = Len(all_files)
        /\ \A i \in Tasks : pc[i] = "returned" /\ i \in consumed

\* the directories listed on the command line, and those of them that exist
Listed == {folder_list[k] : k \in 1..Len(folder_list)}

UsableListed == Listed \cap ExistingDirs

\* the paths for which a FileTask was submitted
Submitted == {all_files[k] : k \in 1..Len(all_files)}

\* C27: an input directory that does not exist or is not a directory is
\* skipped without aborting the run and the remaining directories are still
\* enumerated; when no listed directory is usable the run completes with no
\* FileTask submitted and every Summary counter equal to 0
C27_UnusableDirectorySkipped ==
    /\ mainpc = "aborted" => \E i \in Tasks : pc[i] = "raised"
    /\ mainpc # "scan" =>
          /\ \A p \in DOMAIN disk :
                (disk[p].kind = "file" /\ disk[p].origin[1] \in UsableListed) =>
                    disk[p].origin \in Submitted
          /\ \A p \in Submitted : p[1] \in UsableListed
    /\ (UsableListed = {} /\ mainpc # "scan") =>
          /\ Tasks = {}
          /\ all_files = <<>>
          /\ summary = NoSummary
          /\ mainpc \in {"pool", "done"}

\* a completed run in which a listed directory does not exist and a file of
\* a directory listed after it was submitted and received
C27_Witness ==
    /\ mainpc = "done"
    /\ Listed \ ExistingDirs # {}
    /\ folder_list[1] \notin ExistingDirs
    /\ Submitted # {}
    /\ completed = Len(all_files)

\* what the browser showed for the name of task i
Shown(i) == {browser.results[k].kind :
                k \in {j \in 1..Len(browser.results) :
                          browser.results[j].filename = fname(i)}}

\* C28 (as stated): the pattern browser agrees with the updater on
\* classification: classify_filename returns `none` exactly when process_file
\* ends extraction with a classification failure, and `main` or `fallback`
\* exactly when process_file resolves a timestamp from a catalog rule or a
\* fallback rule respectively
C28_AsStated ==
    \A i \in Tasks :
        (Extracted(i) /\ browser.pc = "shown") =>
            /\ Shown(i) # {}
            /\ "none" \in Shown(i) <=>
                  loc[i].ex.kind \in {"nopattern", "fb1err", "fb2err"}
            /\ "main" \in Shown(i) <=>
                  (loc[i].ex.kind = "resolved" /\ loc[i].ex.via = "catalog")
            /\ "fallback" \in Shown(i) <=>
                  (loc[i].ex.kind = "resolved" /\ loc[i].ex.via \in {"fb1", "fb2"})

====
